---- MODULE Spec2Model ----
(***************************************************************************)
(* WeGo backend: message posting (main.py), the Firestore listener         *)
(* (listeners.py), the rolling preference analysis and the suggestion flow *)
(* (chat_logic.py) and the generative extraction (ai_service.py).          *)
(*                                                                         *)
(* One chat document is modelled (every operation is keyed by chat_id and  *)
(* touches one chat only).  The store, the generative capability and the   *)
(* places search are external: their outcomes are inputs of the actions.   *)
(* Handlers are split at their store / external calls, the suspension      *)
(* points of the concurrency model.                                        *)
(***************************************************************************)
EXTENDS Integers, Sequences, FiniteSets, TLC

\* ---------------------------------------------------------------- bounds
MaxPosts == 2
MaxRuns == 3
MaxCount == 12
MaxCalls == 2
MaxFaults == 1
MaxVotes == 2
MaxRestarts == 1

Posts == 1..MaxPosts
Calls == 1..MaxCalls
Votes == 1..MaxVotes

\* ------------------------------------------------------ program constants
BatchSize == 4
ChatLogLimit == 20
PageSize == 4
NeverSeen == -1

\* ------------------------------------------------------------ text values
\* A text is a sequence of characters.
Uppers == <<"A","B","C","D","E","F","G","H","I","J","K","L","M",
            "N","O","P","Q","R","S","T","U","V","W","X","Y","Z">>
Lowers == <<"a","b","c","d","e","f","g","h","i","j","k","l","m",
            "n","o","p","q","r","s","t","u","v","w","x","y","z">>
Whitespace == {" ", "\t", "\n", "\r"}

\* str.lower() on one character
LowerChar(c) ==
    IF \E i \in 1..Len(Uppers) : Uppers[i] = c
    THEN Lowers[CHOOSE i \in 1..Len(Uppers) : Uppers[i] = c]
    ELSE c

\* str.lower()
Lower(s) == [i \in 1..Len(s) |-> LowerChar(s[i])]

\* str.strip(): drop leading and trailing whitespace
Strip(s) ==
    LET idx == {i \in 1..Len(s) : s[i] \notin Whitespace}
    IN  IF idx = {} THEN <<>>
        ELSE LET lo == CHOOSE i \in idx : \A j \in idx : i <= j
                 hi == CHOOSE i \in idx : \A j \in idx : i >= j
             IN  SubSeq(s, lo, hi)

FindFoodToken == <<"/","f","i","n","d","-","f","o","o","d">>

\* chat_logic.py:158 / main.py:35: message.text.strip().lower() == "/find-food"
IsFindFood(text) == Lower(Strip(text)) = FindFoodToken

\* The message texts the requests are drawn from.
Texts ==
    { <<"h","i">>,
      FindFoodToken,
      <<" ","/","F","i","n","d","-","F","O","O","D","\n">>,
      <<"/","f","i","n","d","-","f","o","o","d"," ","n","o","w">>,
      <<"/","f","i","n","d"," ","f","o","o","d">> }

\* Plain messages only.
PlainTexts == { <<"h","i">> }
\* A plain message, the command as a user may type it, and a near miss.
RequestTexts ==
    { <<"h","i">>,
      <<" ","/","F","i","n","d","-","F","O","O","D","\n">>,
      <<"/","f","i","n","d","-","f","o","o","d"," ","n","o","w">> }

\* ------------------------------------------------------------ JSON values
\* A JSON value is a tagged pair; an object is a record of JSON values.
JStr(s) == [t |-> "str", v |-> s]
JNum(n) == [t |-> "num", v |-> n]
JList(l) == [t |-> "list", v |-> l]
JObj(o) == [t |-> "obj", v |-> o]
JNull == [t |-> "null", v |-> <<>>]
Has(o, k) == k \in DOMAIN o

\* List[str]: a JSON list all of whose items are strings
IsStrList(j) == j.t = "list" /\ \A i \in 1..Len(j.v) : j.v[i].t = "str"
StrListOf(j) == [i \in 1..Len(j.v) |-> j.v[i].v]

\* -------------------------------------------------------------- models.py
PrefFields == {"cuisines_positive", "cuisines_negative", "price_range",
               "dietary_restrictions"}

\* StructuredPreferences(): every list defaults to empty
DefaultPrefs == [f \in PrefFields |-> <<>>]

\* StructuredPreferences(**o): a missing field takes its default, a field of
\* the wrong type fails validation, unknown fields are ignored
PrefsValid(o) == \A f \in PrefFields : Has(o, f) => IsStrList(o[f])
PrefsOf(o) == [f \in PrefFields |-> IF Has(o, f) THEN StrListOf(o[f]) ELSE <<>>]

DefaultSummary == "No preferences found yet."

\* DecisionSession(): the default session, constructed at time now
DefaultSession(now) ==
    [structured_preferences |-> DefaultPrefs,
     summary |-> DefaultSummary,
     last_updated |-> now]

\* DecisionSession(**o) validates
SessionValid(o) ==
    /\ Has(o, "summary") => o["summary"].t = "str"
    /\ Has(o, "structured_preferences") =>
          /\ o["structured_preferences"].t = "obj"
          /\ PrefsValid(o["structured_preferences"].v)

\* DecisionSession(**o) for a valid o; last_updated is then set to now
SessionOf(o, now) ==
    [structured_preferences |->
        IF Has(o, "structured_preferences")
        THEN PrefsOf(o["structured_preferences"].v) ELSE DefaultPrefs,
     summary |-> IF Has(o, "summary") THEN o["summary"].v ELSE DefaultSummary,
     last_updated |-> now]

\* PreferenceEntry: user, preference and object are required strings
EntryValid(j) ==
    /\ j.t = "obj"
    /\ \A k \in {"user", "preference", "object"} : Has(j.v, k) /\ j.v[k].t = "str"

\* PreferenceGroup.model_json_schema(): an object with the required list
\* "preferences" of entries; the schema does not close the object, so other
\* properties are allowed
ConformsToPreferenceGroup(j) ==
    /\ j.t = "obj"
    /\ Has(j.v, "preferences")
    /\ j.v["preferences"].t = "list"
    /\ \A i \in 1..Len(j.v["preferences"].v) : EntryValid(j.v["preferences"].v[i])

\* ------------------------------------------- the generative capability
\* What one generate_content call can do: raise, answer with no parts,
\* answer with empty text, or answer with a text (JSON or not).
Entry1 ==
    JObj([user |-> JStr("Ann"), preference |-> JStr("prefers"),
          object |-> JStr("sushi")])
SushiPrefs ==
    JObj([cuisines_positive |-> JList(<<JStr("sushi")>>),
          price_range |-> JList(<<JStr("cheap")>>)])
TacoPrefs == JObj([cuisines_positive |-> JList(<<JStr("tacos")>>)])

PrefResponses ==
    { [kind |-> "raises"],
      [kind |-> "no_parts"],
      [kind |-> "empty_text"],
      [kind |-> "unparsable"],
      \* the requested shape, nothing else
      [kind |-> "json", value |-> JObj([preferences |-> JList(<<Entry1>>)])],
      [kind |-> "json", value |-> JObj([preferences |-> JList(<<>>)])],
      \* the requested shape with further properties
      [kind |-> "json",
       value |-> JObj([preferences |-> JList(<<Entry1>>),
                       summary |-> JStr("cheap sushi"),
                       structured_preferences |-> SushiPrefs])],
      \* a session-shaped object without "preferences"
      [kind |-> "json",
       value |-> JObj([summary |-> JStr("tacos"),
                       structured_preferences |-> TacoPrefs])],
      \* fields of the wrong type
      [kind |-> "json",
       value |-> JObj([preferences |-> JList(<<Entry1>>),
                       summary |-> JList(<<>>)])],
      [kind |-> "json",
       value |-> JObj([structured_preferences |->
                          JObj([price_range |-> JStr("cheap")])])],
      \* JSON that is no object
      [kind |-> "json", value |-> JList(<<>>)] }

\* ai_service.py:146-185.  The call raising, no parts, empty text, text that
\* json.loads rejects, a value that is no mapping and a value DecisionSession
\* rejects all end in DecisionSession(); otherwise DecisionSession(**json).
ExtractionFailed(resp) ==
    \/ resp.kind # "json"
    \/ resp.value.t # "obj"
    \/ ~SessionValid(resp.value.v)

\* An extraction whose failures give a session with no summary at all.
AnalyzeFailingBlank(chat_log, resp, now) ==
    IF ExtractionFailed(resp)
    THEN [DefaultSession(now) EXCEPT !.summary = ""]
    ELSE SessionOf(resp.value.v, now)

AnalyzeChatForPreferences(chat_log, resp, now) ==
    IF ExtractionFailed(resp)
    THEN DefaultSession(now)
    ELSE SessionOf(resp.value.v, now)

\* The response is JSON conforming to the schema passed in the call.
ResponseConforms(resp) ==
    resp.kind = "json" /\ ConformsToPreferenceGroup(resp.value)

\* ... and names at least one preference
ResponseHasPreferences(resp) ==
    ResponseConforms(resp) /\ Len(resp.value.v["preferences"].v) > 0

\* A session's content (everything but its timestamp)
Content(s) == [structured_preferences |-> s.structured_preferences,
               summary |-> s.summary]

\* ------------------------------------------------------------------ state
VARIABLES
    chat,              \* the document /chats/{chat_id}
    messages,          \* the collection /chats/{chat_id}/messages, in write order
    notifQ,            \* change notifications of the chat document, not yet delivered
    processed_counts,  \* listeners.py:8, the entry of this chat (NeverSeen: none)
    loopRunning,       \* the main event loop is running
    runs,              \* the preference-analysis runs started so far
    clock,             \* datetime.now()
    postPc,            \* where each post_message request is
    postText,          \* its message text
    postSnap,          \* the document its transaction read
    postCount,         \* new_message_count
    postRetried,       \* its transaction found the document changed and ran again
    hist,              \* the notifications handed to the handler so far
    sug,               \* the calls of chat_logic's process_new_message_tasks
    faults,            \* the adds of assistant messages the store has refused
    poll,              \* the document /chats/{chat_id}/polls/{poll_id}
    pollRun,           \* the last call of run_poll_analysis
    vote               \* the vote_on_poll requests

vars == <<chat, messages, notifQ, processed_counts, loopRunning, runs, clock,
          postPc, postText, postSnap, postCount, postRetried, hist, sug, faults,
          poll, pollRun, vote>>

storeVars == <<chat, messages, notifQ>>
listenerVars == <<processed_counts, loopRunning>>
postVars == <<postPc, postText, postSnap, postCount, postRetried>>
\* what the actions of the server process never touch
pollVars == <<poll, pollRun, vote>>
farVars == <<hist, sug, faults, pollVars>>

\* A call of process_new_message_tasks: where it is, what it has read
\* (chat_data), the search request it has built, and what it has done so
\* far: the posts of each kind it has made, its searches, and whether its
\* search raised and whether it found no place.
IdleCall ==
    [pc |-> "idle", command |-> FALSE, doc |-> DefaultSession(0), req |-> <<>>,
     summaries |-> 0, results |-> 0, apologies |-> 0, searches |-> 0,
     caught |-> FALSE, zero |-> FALSE]

\* A vote_on_poll request: where it is, the poll and the option it names,
\* the options the transaction has read and the one it has matched, and the
\* status it was answered with.
IdleVote ==
    [pc |-> "idle", option_text |-> "", snap |-> <<>>,
     match |-> 0, status |-> 0, retried |-> FALSE]

AbsentPoll ==
    [exists |-> FALSE, title |-> "", options |-> <<>>, created_by_message |-> <<>>]

\* What is known of a call of run_poll_analysis: whether the response was
\* one the extraction is to reject, whether it named fewer than two
\* options, what the extraction returned and whether the poll was saved.
NoPollRun ==
    [called |-> FALSE, rejectable |-> FALSE, few |-> FALSE,
     none |-> TRUE, poll |-> AbsentPoll, saved |-> FALSE]

AbsentChat ==
    [exists |-> FALSE, message_count |-> 0, current_decision |-> DefaultSession(0)]

\* A write to the chat document is delivered to the collection's listeners.
Notification(type, doc) == [type |-> type, message_count |-> doc.message_count]

Init ==
    /\ chat = AbsentChat
    /\ messages = <<>>
    /\ notifQ = <<>>
    /\ processed_counts = NeverSeen
    /\ loopRunning = TRUE
    /\ runs = <<>>
    /\ clock = 0
    /\ postPc = [p \in Posts |-> "idle"]
    /\ postText = [p \in Posts |-> <<>>]
    /\ postSnap = [p \in Posts |-> AbsentChat]
    /\ postCount = [p \in Posts |-> 0]
    /\ postRetried = [p \in Posts |-> FALSE]
    /\ hist = [seen |-> {}, last |-> 0, monotone |-> TRUE,
               restarts |-> 0, before |-> 0, since |-> {}]
    /\ sug = [c \in Calls |-> IdleCall]
    /\ faults = 0
    /\ poll = AbsentPoll
    /\ pollRun = NoPollRun
    /\ vote = [v \in Votes |-> IdleVote]

\* ---------------------------------------------------- main.py: create chat
\* main.py:219-244.  A store failure ends in a 500 and writes nothing.
CreateNewChat ==
    /\ loopRunning
    /\ ~chat.exists
    /\ \E ok \in BOOLEAN :
          IF ok
          THEN /\ chat' = [exists |-> TRUE, message_count |-> 0,
                           current_decision |-> DefaultSession(clock)]
               /\ notifQ' = Append(notifQ, Notification("ADDED", chat'))
               /\ clock' = clock + 1
          ELSE UNCHANGED <<chat, notifQ, clock>>
    /\ UNCHANGED <<messages, listenerVars, runs, postVars, farVars>>

\* ------------------------------------------------- main.py: post_message
UserMessage(text) == [user_id |-> "u1", user_name |-> "Ann", text |-> text]

\* main.py:167-173: build the message and add it to the messages collection.
\* Requests are numbered in the order they arrive.
PostAdd(p, texts) ==
    /\ loopRunning
    /\ postPc[p] = "idle"
    /\ IF p = 1 THEN TRUE ELSE postPc[p - 1] # "idle"
    /\ \E text \in texts, ok \in BOOLEAN :
          IF ok
          THEN /\ messages' = Append(messages, UserMessage(text))
               /\ postText' = [postText EXCEPT ![p] = text]
               /\ postPc' = [postPc EXCEPT ![p] = "incr"]
          ELSE /\ postPc' = [postPc EXCEPT ![p] = "failed_add"]
               /\ UNCHANGED <<messages, postText>>
    /\ UNCHANGED <<chat, notifQ, listenerVars, runs, clock, postSnap, postCount, postRetried, farVars>>

\* main.py:176-177: chat_ref.update({"message_count": firestore.Increment(1)}),
\* one atomic server-side increment; it raises on a missing document.
PostIncrement(p) ==
    /\ loopRunning
    /\ postPc[p] = "incr"
    /\ \E ok \in BOOLEAN :
          IF ok /\ chat.exists
          THEN /\ chat' = [chat EXCEPT !.message_count = @ + 1]
               /\ notifQ' = Append(notifQ, Notification("MODIFIED", chat'))
               /\ postPc' = [postPc EXCEPT ![p] = "tx_read"]
          ELSE /\ postPc' = [postPc EXCEPT ![p] = "failed_incr"]
               /\ UNCHANGED <<chat, notifQ>>
    /\ UNCHANGED <<messages, listenerVars, runs, clock, postText, postSnap, postCount, postRetried, farVars>>

\* main.py:189-196: the transaction reads the chat document.
PostTxRead(p) ==
    /\ loopRunning
    /\ postPc[p] = "tx_read"
    /\ IF chat.exists
       THEN /\ postSnap' = [postSnap EXCEPT ![p] = chat]
            /\ postPc' = [postPc EXCEPT ![p] = "tx_commit"]
       ELSE /\ postPc' = [postPc EXCEPT ![p] = "failed_tx"]
            /\ UNCHANGED postSnap
    /\ UNCHANGED <<storeVars, listenerVars, runs, clock, postText, postCount, postRetried, farVars>>

\* main.py:189-193: a transaction commits only if the document it read has not
\* been written since; otherwise the transactional function runs again.
TxBlind(snap, cur) == TRUE
TxCanCommit(snap, cur) == snap = cur

\* main.py:198: snapshot.to_dict().get("message_count", 0) + 1
NewCount(snap) == snap.message_count + 1

\* main.py:198-213: write the new count, add the background task, answer 202.
PostTxCommit(p) ==
    /\ loopRunning
    /\ postPc[p] = "tx_commit"
    /\ \E ok \in BOOLEAN :
          IF ~ok
          THEN /\ postPc' = [postPc EXCEPT ![p] = "failed_tx"]
               /\ UNCHANGED <<chat, notifQ, postCount, postRetried>>
          ELSE IF TxCanCommit(postSnap[p], chat)
          THEN /\ chat' = [chat EXCEPT !.message_count = NewCount(postSnap[p])]
               /\ notifQ' = Append(notifQ, Notification("MODIFIED", chat'))
               /\ postCount' = [postCount EXCEPT ![p] = NewCount(postSnap[p])]
               /\ postPc' = [postPc EXCEPT ![p] = "task"]
               /\ UNCHANGED postRetried
          ELSE /\ postPc' = [postPc EXCEPT ![p] = "tx_read"]
               /\ postRetried' = [postRetried EXCEPT ![p] = TRUE]
               /\ UNCHANGED <<chat, notifQ, postCount>>
    /\ UNCHANGED <<messages, listenerVars, runs, clock, postText, postSnap, farVars>>

\* ----------------------------------------------- preference-analysis runs
\* A run that has been started: by the listener for a count, or by main.py's
\* background task.
NewRun(by, count) ==
    [pc |-> "log", by |-> by, count |-> count, log |-> <<>>,
     failed |-> FALSE, conforms |-> FALSE, named |-> FALSE,
     out |-> DefaultSession(0), wrote |-> FALSE, raised |-> FALSE,
     \* whether an earlier run had not finished when this one was scheduled
     overlaps |-> \E j \in 1..Len(runs) : runs[j].pc # "done"]

\* ------------------------------- main.py: the background task of a request
\* main.py:25-48, process_new_message_tasks of main.py: the command runs the
\* suggestion trigger; any other message runs the analysis on a multiple of 4.
MainTaskRunsSuggestion(text, count) == IsFindFood(text)
MainTaskRunsAnalysis(text, count) == ~IsFindFood(text) /\ count % BatchSize = 0

PostTask(p) ==
    /\ loopRunning
    /\ postPc[p] = "task"
    /\ IF MainTaskRunsSuggestion(postText[p], postCount[p])
       THEN /\ postPc' = [postPc EXCEPT ![p] = "sug_read"]
            /\ UNCHANGED runs
       ELSE IF MainTaskRunsAnalysis(postText[p], postCount[p])
       THEN /\ Len(runs) < MaxRuns
            /\ runs' = Append(runs, NewRun("task", postCount[p]))
            /\ postPc' = [postPc EXCEPT ![p] = "done"]
       ELSE /\ postPc' = [postPc EXCEPT ![p] = "done"]
            /\ UNCHANGED runs
    /\ UNCHANGED <<storeVars, listenerVars, clock, postText, postSnap, postCount, postRetried, farVars>>

\* main.py:93-102, run_suggestion_trigger of main.py: read the chat document.
PostSuggestRead(p) ==
    /\ loopRunning
    /\ postPc[p] = "sug_read"
    /\ IF chat.exists
       THEN /\ postSnap' = [postSnap EXCEPT ![p] = chat]
            /\ postPc' = [postPc EXCEPT ![p] = "sug_post"]
       ELSE /\ postPc' = [postPc EXCEPT ![p] = "done"]
            /\ UNCHANGED postSnap
    /\ UNCHANGED <<storeVars, listenerVars, runs, clock, postText, postCount, postRetried, farVars>>

\* The assistant's messages; the text is kept as its parts.
SummaryMessage(name, summary) ==
    [user_id |-> "ai-assistant", user_name |-> name, text |-> <<"summary", summary>>]

\* main.py:104-112 with 139-153: post the summary; a store failure is swallowed.
PostSuggestPost(p) ==
    /\ loopRunning
    /\ postPc[p] = "sug_post"
    /\ \E ok \in BOOLEAN :
          messages' = IF ok
                      THEN Append(messages,
                             SummaryMessage("FoodieBot",
                                            postSnap[p].current_decision.summary))
                      ELSE messages
    /\ postPc' = [postPc EXCEPT ![p] = "done"]
    /\ UNCHANGED <<chat, notifQ, listenerVars, runs, clock, postText, postSnap, postCount, postRetried, farVars>>

\* ------------------------------------------- listeners.py: on_chat_snapshot
\* listeners.py:17
ChangeTypes == {"ADDED", "MODIFIED", "REMOVED"}
IsWatched(type) == type = "MODIFIED" \/ type = "ADDED"

\* listeners.py:29: only a count that differs from the last one seen
ProcessAlways(message_count, last_count) == TRUE
ShouldProcess(message_count, last_count) == message_count # last_count

\* listeners.py:33
Qualifies(message_count) == message_count > 0 /\ message_count % BatchSize = 0

\* listeners.py:37: the run is handed to the loop only if the loop is running
WillSchedule(change) ==
    /\ IsWatched(change.type)
    /\ ShouldProcess(change.message_count, processed_counts)
    /\ Qualifies(change.message_count)
    /\ loopRunning

\* listeners.py:15-40, for one change of the batch
HandleChange(change) ==
    /\ WillSchedule(change) => Len(runs) < MaxRuns
    /\ IF IsWatched(change.type)
          /\ ShouldProcess(change.message_count, processed_counts)
       THEN /\ processed_counts' = change.message_count
            /\ runs' = IF Qualifies(change.message_count) /\ loopRunning
                       THEN Append(runs, NewRun("listener", change.message_count))
                       ELSE runs
       ELSE UNCHANGED <<processed_counts, runs>>

\* The listener thread handles the oldest undelivered notification; delivery
\* is at least once, so the notification may stay and be delivered again.
OnChatSnapshot ==
    /\ notifQ # <<>>
    /\ HandleChange(Head(notifQ))
    /\ \E again \in BOOLEAN : notifQ' = IF again THEN notifQ ELSE Tail(notifQ)
    /\ UNCHANGED <<chat, messages, loopRunning, clock, postVars, farVars>>

\* The handler called with any change of the chat document.  hist records
\* the counts of the watched changes, the last of them and whether they
\* have come in non-decreasing order.
NotifCounts == {n \in 0..MaxCount : n % BatchSize \in {0, 1}}

Deliver(type, n) ==
    /\ HandleChange([type |-> type, message_count |-> n])
    /\ hist' = IF IsWatched(type)
               THEN [hist EXCEPT !.seen = @ \cup {n}, !.last = n,
                                 !.monotone = @ /\ n >= hist.last,
                                 !.since = @ \cup {n}]
               ELSE hist
    /\ UNCHANGED <<storeVars, loopRunning, clock, postVars, sug, faults, pollVars>>

\* listeners.py:8: the process starts again with an empty _processed_counts
\* and a running loop.  hist notes how many runs there were and starts the
\* counts delivered since anew.
Restart ==
    /\ hist.restarts < MaxRestarts
    /\ processed_counts' = NeverSeen
    /\ loopRunning' = TRUE
    /\ hist' = [hist EXCEPT !.restarts = @ + 1, !.before = Len(runs), !.since = {}]
    /\ UNCHANGED <<storeVars, runs, clock, postVars, sug, faults, pollVars>>

\* The event loop stops (shutdown); the listener thread goes on.
StopLoop ==
    /\ loopRunning
    /\ loopRunning' = FALSE
    /\ UNCHANGED <<storeVars, processed_counts, runs, clock, postVars, farVars>>

\* ------------------------------------- chat_logic.py: run_preference_analysis
\* chat_logic.py:11-27: the last `limit` messages, oldest first, one entry
\* "user_name: text" each (an entry is kept as the pair; Transcript joins
\* them).
\* The first limit messages, oldest first.
GetChatLogOldest(msgs, limit) ==
    [i \in 1..(IF Len(msgs) > limit THEN limit ELSE Len(msgs)) |->
        <<msgs[i].user_name, msgs[i].text>>]
GetChatLog(msgs, limit) ==
    LET n == Len(msgs)
        first == IF n > limit THEN n - limit + 1 ELSE 1
    IN  [i \in 1..(n - first + 1) |->
            <<msgs[first + i - 1].user_name, msgs[first + i - 1].text>>]

\* chat_logic.py:23: f"{msg.user_name}: {msg.text}", as characters
NameChars(name) ==
    IF name = "Ann" THEN <<"A", "n", "n">>
    ELSE IF name = "WeGoGo" THEN <<"W", "e", "G", "o", "G", "o">>
    ELSE <<>>
EntryLine(entry) == NameChars(entry[1]) \o <<":", " ">> \o entry[2]

\* chat_logic.py:27: "\n".join(chat_lines)
RECURSIVE Join(_)
Join(lines) ==
    IF Len(lines) = 0 THEN <<>>
    ELSE IF Len(lines) = 1 THEN lines[1]
    ELSE lines[1] \o <<"\n">> \o Join(Tail(lines))

\* The string get_chat_log returns for the entries it has collected.
Transcript(log) == Join([i \in 1..Len(log) |-> EntryLine(log[i])])

\* The lines of a transcript: what lies between its line breaks; the empty
\* transcript has none.
RECURSIVE SplitLines(_)
SplitLines(s) ==
    IF s = <<>> THEN <<>>
    ELSE IF \E i \in 1..Len(s) : s[i] = "\n"
    THEN LET i == CHOOSE i \in 1..Len(s) :
                    s[i] = "\n" /\ \A k \in 1..(i - 1) : s[k] # "\n"
         IN  <<SubSeq(s, 1, i - 1)>> \o
             (IF i = Len(s) THEN << <<>> >> ELSE SplitLines(SubSeq(s, i + 1, Len(s))))
    ELSE <<s>>

\* A test of the log that lets every run go on.
LogNeverEmpty(log) == FALSE
\* chat_logic.py:68: "if not chat_log"; the transcript is the empty string
\* exactly when no entry was collected
LogIsEmpty(log) == Transcript(log) = <<>>

\* chat_logic.py:67-70: an empty log ends the run
RunGetLog(i) ==
    /\ loopRunning
    /\ runs[i].pc = "log"
    /\ LET log == GetChatLog(messages, ChatLogLimit)
       IN  runs' = [runs EXCEPT ![i].pc = IF LogIsEmpty(log) THEN "done" ELSE "extract",
                                ![i].log = log]
    /\ UNCHANGED <<storeVars, listenerVars, clock, postVars, farVars>>

\* chat_logic.py:73: the extraction, for each outcome of the generative call
RunExtract(i) ==
    /\ loopRunning
    /\ runs[i].pc = "extract"
    /\ \E resp \in PrefResponses :
          runs' = [runs EXCEPT
                     ![i].pc = "write",
                     ![i].log = <<>>,
                     ![i].failed = ExtractionFailed(resp),
                     ![i].conforms = ResponseConforms(resp),
                     ![i].named = ResponseHasPreferences(resp),
                     ![i].out = AnalyzeChatForPreferences(runs[i].log, resp, clock)]
    /\ clock' = clock + 1
    /\ UNCHANGED <<storeVars, listenerVars, postVars, farVars>>

\* chat_logic.py:77-79: update({"current_decision": ...}) replaces the field
MergeBack(old, out) == [old EXCEPT !.summary = out.summary,
                                   !.last_updated = out.last_updated]
\* A write-back that keeps a session an earlier run has stored.
KeepFirst(old, out) == IF old.last_updated = 0 THEN out ELSE old
WriteBack(old, out) == out

\* A store write whose failure leaves the function as an exception.
FailureEscapes(ok) == ~ok
\* chat_logic.py:42-43, 80-82: "except Exception" around the store write
\* prints the failure, so none leaves the function
WriteFailureRaises(ok) == FALSE

\* chat_logic.py:76-82: the write-back; a store failure is swallowed
RunWrite(i) ==
    /\ loopRunning
    /\ runs[i].pc = "write"
    /\ \E ok \in BOOLEAN :
          IF ok /\ chat.exists
          THEN /\ chat' = [chat EXCEPT !.current_decision =
                                          WriteBack(@, runs[i].out)]
               /\ notifQ' = Append(notifQ, Notification("MODIFIED", chat'))
               /\ runs' = [runs EXCEPT ![i].pc = "done", ![i].wrote = TRUE]
          ELSE /\ runs' = [runs EXCEPT ![i].pc = "done",
                                        ![i].raised = WriteFailureRaises(FALSE)]
               /\ UNCHANGED <<chat, notifQ>>
    /\ UNCHANGED <<messages, listenerVars, clock, postVars, farVars>>

\* ------------------------------- ai_service.py: the search request
ApiKey == "GOOGLE_PLACES_API_KEY"

\* ai_service.py:271-282
LocationRestriction ==
    JObj([rectangle |->
            JObj([low |-> JStr("38.585,-90.394"), high |-> JStr("38.711,-90.216")])])

\* ai_service.py:253-256, 259-262, 294-297, 303-306
FallbackRequest ==
    [body |-> [textQuery |-> JStr("restaurant"), pageSize |-> JNum(PageSize)],
     api_key |-> ApiKey]

\* ai_service.py:268-282: the two keys set on the parsed object
WithPaging(o) ==
    [k \in DOMAIN o \cup {"pageSize", "locationRestriction"} |->
        IF k = "pageSize" THEN JNum(PageSize)
        ELSE IF k = "locationRestriction" THEN LocationRestriction
        ELSE o[k]]

\* ai_service.py:214-234, PLACES_API_REQUEST_SCHEMA: an object with the
\* required string textQuery, priceLevels a list of the four levels,
\* includedType a string; other properties are not excluded.
PriceLevels == {"PRICE_LEVEL_INEXPENSIVE", "PRICE_LEVEL_MODERATE",
                "PRICE_LEVEL_EXPENSIVE", "PRICE_LEVEL_VERY_EXPENSIVE"}
IsPriceLevelList(j) ==
    j.t = "list" /\ \A i \in 1..Len(j.v) : j.v[i].t = "str" /\ j.v[i].v \in PriceLevels
ConformsToPlacesRequestSchema(j) ==
    /\ j.t = "obj"
    /\ Has(j.v, "textQuery") /\ j.v["textQuery"].t = "str"
    /\ Has(j.v, "priceLevels") => IsPriceLevelList(j.v["priceLevels"])
    /\ Has(j.v, "includedType") => j.v["includedType"].t = "str"

\* What the generative call of the translation can answer.
TranslateResponses ==
    { [kind |-> "raises"],
      [kind |-> "no_parts"],
      [kind |-> "empty_text"],
      [kind |-> "unparsable"],
      [kind |-> "json",
       value |-> JObj([textQuery |-> JStr("sushi restaurant"),
                       priceLevels |-> JList(<<JStr("PRICE_LEVEL_INEXPENSIVE")>>)])],
      [kind |-> "json", value |-> JObj([textQuery |-> JStr("tacos")])],
      [kind |-> "json",
       value |-> JObj([priceLevels |-> JList(<<JStr("PRICE_LEVEL_FREE")>>)])],
      [kind |-> "json", value |-> JList(<<>>)] }

\* ai_service.py:236-306: every failure, and a parsed value that takes no
\* item assignment, ends in the fallback request.
ConvertDecisionToPlacesApiRequest(decision, resp) ==
    IF resp.kind # "json" THEN FallbackRequest
    ELSE IF resp.value.t # "obj" THEN FallbackRequest
    ELSE [body |-> WithPaging(resp.value.v), api_key |-> ApiKey]

\* ------------------------------- ai_service.py: search_restaurants
FullPlace ==
    [displayName |-> [text |-> "Sushi Ko"], formattedAddress |-> "1 Main St",
     rating |-> "4.5", websiteUri |-> "https://sushi.example"]
BarePlace == [rating |-> "3.9"]
PlaceList(n) == [i \in 1..n |-> IF i % 2 = 1 THEN FullPlace ELSE BarePlace]
EmptyDict == [k \in {} |-> 0]

\* What the request to the places API can end in: no answer at all, an
\* answer with a status, its body JSON or not.
SearchOutcomes ==
    { [kind |-> "transport_error", status |-> 0, parsable |-> FALSE, json |-> EmptyDict],
      [kind |-> "http", status |-> 403, parsable |-> TRUE, json |-> EmptyDict],
      [kind |-> "http", status |-> 200, parsable |-> FALSE, json |-> EmptyDict],
      [kind |-> "http", status |-> 200, parsable |-> TRUE, json |-> EmptyDict],
      [kind |-> "http", status |-> 200, parsable |-> TRUE,
       json |-> [places |-> PlaceList(0)]],
      [kind |-> "http", status |-> 200, parsable |-> TRUE,
       json |-> [places |-> PlaceList(1)]],
      [kind |-> "http", status |-> 200, parsable |-> TRUE,
       json |-> [places |-> PlaceList(PageSize + 1)]] }

\* ai_service.py:328-338: the call raises on a transport failure and on a
\* 200 whose body json.loads rejects
SearchRaises(out) ==
    out.kind = "transport_error" \/ (out.status = 200 /\ ~out.parsable)

\* ai_service.py:331-338: the parsed body on 200, {} on any other status
SearchResult(out) == IF out.status = 200 THEN out.json ELSE EmptyDict

\* The search has found no place.
YieldsZeroPlaces(out) ==
    \/ SearchRaises(out)
    \/ ~Has(SearchResult(out), "places")
    \/ Len(SearchResult(out)["places"]) = 0

\* chat_logic.py:120: if response and "places" in response
HasPlacesKey(response) == response # EmptyDict /\ Has(response, "places")

\* --------------------------------------- chat_logic.py: the assistant posts
\* chat_logic.py:122-129: the text of a place message, kept as its parts
PlaceMessage(place) ==
    [user_id |-> "ai-assistant", user_name |-> "WeGoGo",
     text |-> <<"place",
                IF Has(place, "displayName") /\ Has(place["displayName"], "text")
                THEN place["displayName"]["text"] ELSE "Unknown",
                IF Has(place, "formattedAddress")
                THEN place["formattedAddress"] ELSE "No address",
                IF Has(place, "rating") THEN place["rating"] ELSE "N/A",
                IF Has(place, "websiteUri") THEN place["websiteUri"] ELSE "">>]

\* chat_logic.py:138-143
ApologyMessage ==
    [user_id |-> "ai-assistant", user_name |-> "WeGoGo", text |-> <<"apology">>]

\* The store as one value, for the functions that write to it in passing.
Store == [messages |-> messages, chat |-> chat, notifQ |-> notifQ]
SetStore(st) ==
    /\ messages' = st.messages
    /\ chat' = st.chat
    /\ notifQ' = st.notifQ

\* An assistant post that also counts the message on the chat document.
PostMessageCounting(st, msg, ok) ==
    IF ok
    THEN [messages |-> Append(st.messages, msg),
          chat |-> [st.chat EXCEPT !.message_count = @ + 1],
          notifQ |-> Append(st.notifQ,
                            Notification("MODIFIED",
                                         [st.chat EXCEPT !.message_count = @ + 1]))]
    ELSE st

\* An assistant post that is lost on its way to the store.
PostMessageDropped(st, msg, ok) == st

\* chat_logic.py:29-43, post_message_to_chat: one add to the messages
\* collection and nothing else; a failure of the add is printed and swallowed.
PostMessageToChat(st, msg, ok) ==
    IF ok THEN [st EXCEPT !.messages = Append(@, msg)] ELSE st

\* chat_logic.py:121-136: one post for each place of the response, from the
\* i-th on; oks[i] tells whether the store takes the i-th add.
RECURSIVE PostPlaces(_, _, _, _)
PostPlaces(st, places, oks, i) ==
    IF i > Len(places) THEN st
    ELSE PostPlaces(PostMessageToChat(st, PlaceMessage(places[i]), oks[i]),
                    places, oks, i + 1)

\* The adds refused among oks, and the faults the store may still have.
Refused(oks) == Cardinality({i \in DOMAIN oks : ~oks[i]})
FaultsAllow(oks) == faults + Refused(oks) <= MaxFaults

\* chat_logic.py:93, if not doc.exists
ChatAlwaysThere(doc) == FALSE
ChatMissing(doc) == ~doc.exists

\* --------------------- chat_logic.py: process_new_message_tasks and the flow
\* The flow is a coroutine on the server's one event loop: other work gets
\* the loop only where the flow waits for the network, in the translation
\* and in the request of the search.  The store calls and
\* post_message_to_chat return without suspending, so what lies between
\* two such waits is one step.

\* chat_logic.py:148-171 with 84-111: only the command does anything.  The
\* flow reads the chat document, ends if there is none, posts the summary
\* and waits for the translation.  Calls are numbered as they come.
ProcessNewMessageTasks(c) ==
    /\ sug[c].pc = "idle"
    /\ IF c = 1 THEN TRUE ELSE sug[c - 1].pc # "idle"
    /\ \E text \in Texts, oks \in [{1} -> BOOLEAN] :
          IF ~IsFindFood(text)
          THEN /\ oks[1]
               /\ sug' = [sug EXCEPT ![c].pc = "done"]
               /\ UNCHANGED <<storeVars, faults>>
          ELSE IF ChatMissing(chat)
          THEN /\ oks[1]
               /\ sug' = [sug EXCEPT ![c].pc = "done", ![c].command = TRUE]
               /\ UNCHANGED <<storeVars, faults>>
          ELSE /\ FaultsAllow(oks)
               /\ SetStore(PostMessageToChat(
                      Store, SummaryMessage("WeGoGo", chat.current_decision.summary),
                      oks[1]))
               /\ faults' = faults + Refused(oks)
               /\ sug' = [sug EXCEPT ![c].pc = IF WriteFailureRaises(oks[1])
                                               THEN "done" ELSE "translate",
                                     ![c].caught = WriteFailureRaises(oks[1]),
                                     ![c].command = TRUE,
                                     ![c].doc = chat.current_decision,
                                     ![c].summaries = @ + 1]
    /\ UNCHANGED <<listenerVars, runs, clock, postVars, hist, pollVars>>

\* chat_logic.py:111-117: the translation answers, the request is built and
\* sent
SuggestTranslate(c) ==
    /\ sug[c].pc = "translate"
    /\ \E resp \in TranslateResponses :
          sug' = [sug EXCEPT
                    ![c].pc = "search",
                    ![c].req = ConvertDecisionToPlacesApiRequest(sug[c].doc, resp)]
    /\ UNCHANGED <<storeVars, faults, listenerVars, runs, clock, postVars, hist, pollVars>>

\* The posts the flow makes for the outcome of its search.
PostsFor(out) ==
    IF SearchRaises(out) THEN 0
    ELSE IF HasPlacesKey(SearchResult(out)) THEN Len(SearchResult(out)["places"])
    ELSE 1

\* chat_logic.py:117-146: the search answers; the request is done with.  An exception of the search is
\* printed by the handler at the bottom; a response with the key "places"
\* gets one post for each place it lists; any other response the apology.
SuggestSearch(c) ==
    /\ sug[c].pc = "search"
    /\ \E out \in SearchOutcomes :
       \E oks \in [1..PostsFor(out) -> BOOLEAN] :
          /\ FaultsAllow(oks)
          /\ faults' = faults + Refused(oks)
          /\ SetStore(IF SearchRaises(out) THEN Store
                      ELSE IF HasPlacesKey(SearchResult(out))
                      THEN PostPlaces(Store, SearchResult(out)["places"], oks, 1)
                      ELSE PostMessageToChat(Store, ApologyMessage, oks[1]))
          /\ sug' = [sug EXCEPT
                       ![c].pc = "done",
                       ![c].req = <<>>,
                       ![c].searches = @ + 1,
                       ![c].zero = YieldsZeroPlaces(out),
                       ![c].caught = SearchRaises(out),
                       ![c].results = IF ~SearchRaises(out) /\ HasPlacesKey(SearchResult(out))
                                      THEN Len(SearchResult(out)["places"]) ELSE 0,
                       ![c].apologies = IF ~SearchRaises(out) /\ ~HasPlacesKey(SearchResult(out))
                                        THEN 1 ELSE 0]
    /\ UNCHANGED <<listenerVars, runs, clock, postVars, hist, pollVars>>

\* ------------------------------------------- ai_service.py: the poll
Opt(text) == JObj([text |-> JStr(text)])

\* What the generative call of the poll extraction can answer.
PollResponses ==
    { [kind |-> "raises"],
      [kind |-> "no_parts"],
      [kind |-> "empty_text"],
      [kind |-> "unparsable"],
      [kind |-> "json", value |-> JNull],
      [kind |-> "json", value |-> JList(<<>>)],
      [kind |-> "json",
       value |-> JObj([title |-> JStr("Pizza tonight?"),
                       options |-> JList(<<Opt("Yes"), Opt("No")>>)])],
      [kind |-> "json",
       value |-> JObj([title |-> JStr("Pizza tonight?"),
                       options |-> JList(<<Opt("Yes")>>)])],
      [kind |-> "json",
       value |-> JObj([title |-> JStr("Pizza tonight?"), options |-> JList(<<>>)])],
      [kind |-> "json", value |-> JObj([title |-> JStr("Pizza tonight?")])],
      [kind |-> "json",
       value |-> JObj([options |-> JList(<<Opt("Yes"), Opt("No")>>)])],
      [kind |-> "json",
       value |-> JObj([title |-> JStr("Pizza tonight?"),
                       options |-> JList(<<JObj(EmptyDict), Opt("No")>>)])],
      [kind |-> "json",
       value |-> JObj([title |-> JNum(5),
                       options |-> JList(<<Opt("Yes"), Opt("No")>>)])] }

\* ai_service.py:23-42, POLL_SCHEMA: an object with the required string
\* title and the required list options of objects with a string text
ConformsToPollSchema(j) ==
    /\ j.t = "obj"
    /\ Has(j.v, "title") /\ j.v["title"].t = "str"
    /\ Has(j.v, "options") /\ j.v["options"].t = "list"
    /\ \A i \in 1..Len(j.v["options"].v) :
          /\ j.v["options"].v[i].t = "obj"
          /\ Has(j.v["options"].v[i].v, "text")
          /\ j.v["options"].v[i].v["text"].t = "str"

\* ai_service.py:118: the comprehension over response_json.get("options", [])
\* succeeds on a list of mappings with a string text, and on nothing to
\* iterate over
OptionsUsable(j) ==
    \/ /\ j.t = "list"
       /\ \A i \in 1..Len(j.v) :
             j.v[i].t = "obj" /\ Has(j.v[i].v, "text") /\ j.v[i].v["text"].t = "str"
    \/ j.t = "obj" /\ DOMAIN j.v = {}
    \/ j.t = "str" /\ j.v = ""
OptionItems(j) == IF j.t = "list" THEN j.v ELSE <<>>

\* ai_service.py:113-122: the response is turned into a Poll; options is
\* taken as the empty list when the key is missing, every option starts
\* with no votes.  created_at is left out.
PollBuilds(o) ==
    /\ Has(o, "title") /\ o["title"].t = "str"
    /\ Has(o, "options") => OptionsUsable(o["options"])
PollOf(o, message_text) ==
    LET items == IF Has(o, "options") THEN OptionItems(o["options"]) ELSE <<>>
    IN [exists |-> TRUE,
        title |-> o["title"].v,
        options |-> [i \in 1..Len(items) |-> [text |-> items[i].v["text"].v, votes |-> 0]],
        created_by_message |-> message_text]

\* ai_service.py:85-126: None when the call raises, answers without parts or
\* text, with text json.loads rejects, with a value that has no get, or
\* with what PollOption or Poll rejects; the Poll otherwise.
AnalyzeMessageForPoll(message_text, resp) ==
    IF resp.kind # "json" THEN [none |-> TRUE, poll |-> AbsentPoll]
    ELSE IF resp.value.t # "obj" THEN [none |-> TRUE, poll |-> AbsentPoll]
    ELSE IF ~PollBuilds(resp.value.v) THEN [none |-> TRUE, poll |-> AbsentPoll]
    ELSE [none |-> FALSE, poll |-> PollOf(resp.value.v, message_text)]

\* The response is one the extraction is to answer with None: no usable
\* content or content that violates the schema of the call.
Rejectable(resp) == resp.kind # "json" \/ ~ConformsToPollSchema(resp.value)

\* The response is a poll of the schema with fewer than two options.
FewOptions(resp) ==
    /\ resp.kind = "json"
    /\ ConformsToPollSchema(resp.value)
    /\ Len(resp.value.v["options"].v) < 2

\* chat_logic.py:47-60, run_poll_analysis: the poll the extraction returns
\* is added to the polls collection; a failure of the add is swallowed.
\* The add makes a new document: it is the one followed here if there is
\* none yet.
RunPollAnalysis ==
    /\ \E text \in PlainTexts, resp \in PollResponses, ok \in BOOLEAN :
          LET r == AnalyzeMessageForPoll(text, resp) IN
          /\ r.none => ok
          /\ poll' = IF ~r.none /\ ok /\ ~poll.exists THEN r.poll ELSE poll
          /\ pollRun' = [called |-> TRUE, rejectable |-> Rejectable(resp),
                         few |-> FewOptions(resp), none |-> r.none,
                         poll |-> r.poll, saved |-> ~r.none /\ ok]
    /\ UNCHANGED <<storeVars, listenerVars, runs, clock, postVars, hist, sug,
                   faults, vote>>

\* ------------------------------------------------- main.py: vote_on_poll
OptionTexts == {"Yes", "No", "Maybe"}

\* main.py:278-284: the first option whose text is the one voted for, 0 if
\* there is none
FindOptionLoose(options, text) == IF Len(options) > 0 THEN 1 ELSE 0
FindOption(options, text) ==
    IF \E i \in 1..Len(options) : options[i].text = text
    THEN CHOOSE i \in 1..Len(options) :
            /\ options[i].text = text
            /\ \A k \in 1..(i - 1) : options[k].text # text
    ELSE 0

\* An increment of every option's votes.
VotedAll(options, i) ==
    [k \in 1..Len(options) |-> [options[k] EXCEPT !.votes = @ + 1]]
\* main.py:281: option["votes"] = option.get("votes", 0) + 1
Voted(options, i) == [options EXCEPT ![i].votes = @ + 1]

\* main.py:264-287, 297-305: the request arrives and its transaction reads
\* the poll document, or reads it again after a conflict.  A missing poll
\* is answered 404, a text that is no option 400, a store failure 500.
\* Requests are numbered as they come.
VoteRead(v) ==
    /\ vote[v].pc \in {"idle", "read"}
    /\ IF v = 1 THEN TRUE ELSE vote[v - 1].pc # "idle"
    /\ \E text \in OptionTexts, ok \in BOOLEAN :
          /\ vote[v].pc = "read" => text = vote[v].option_text
          /\ vote' = [vote EXCEPT ![v] =
                IF ~ok
                THEN [@ EXCEPT !.pc = "done", !.option_text = text, !.status = 500]
                ELSE IF ~poll.exists
                THEN [@ EXCEPT !.pc = "done", !.option_text = text, !.status = 404]
                ELSE IF FindOption(poll.options, text) = 0
                THEN [@ EXCEPT !.pc = "done", !.option_text = text, !.status = 400]
                ELSE [@ EXCEPT !.pc = "commit", !.option_text = text,
                               !.snap = poll,
                               !.match = FindOption(poll.options, text)]]
    /\ UNCHANGED <<storeVars, listenerVars, runs, clock, postVars, hist, sug,
                   faults, poll, pollRun>>

\* main.py:289-299: the transaction writes the options back and the poll is
\* returned (200); it runs again if the document was written in between.
VoteCommit(v) ==
    /\ vote[v].pc = "commit"
    /\ \E ok \in BOOLEAN :
          IF ~ok
          THEN /\ vote' = [vote EXCEPT ![v].pc = "done", ![v].status = 500,
                                       ![v].snap = <<>>]
               /\ UNCHANGED poll
          ELSE IF TxCanCommit(vote[v].snap, poll)
          THEN /\ poll' = [poll EXCEPT
                             !.options = Voted(vote[v].snap.options, vote[v].match)]
               /\ vote' = [vote EXCEPT ![v].pc = "done", ![v].status = 200,
                                       ![v].snap = <<>>]
          ELSE /\ vote' = [vote EXCEPT ![v].pc = "read", ![v].retried = TRUE,
                                       ![v].snap = <<>>]
               /\ UNCHANGED poll
    /\ UNCHANGED <<storeVars, listenerVars, runs, clock, postVars, hist, sug,
                   faults, pollRun>>

\* ----------------------------------------------------------- specification
\* Spec: one server process with its listener.  post_message awaits nothing,
\* so the event loop serves one request at a time; the messages are plain
\* ones.  Background tasks, analysis runs and the listener thread are let
\* interleave with the requests and with each other at every store and
\* external call, which covers the schedules of the one loop (SpecLoop has
\* exactly those) and those of several processes on one store.
InRequest(p) == postPc[p] \in {"incr", "tx_read", "tx_commit"}

Next ==
    \/ CreateNewChat
    \/ \E p \in Posts : (\A q \in Posts : ~InRequest(q)) /\ PostAdd(p, PlainTexts)
    \/ \E p \in Posts : PostIncrement(p)
    \/ \E p \in Posts : PostTxRead(p)
    \/ \E p \in Posts : PostTxCommit(p)
    \/ \E p \in Posts : PostTask(p)
    \/ OnChatSnapshot
    \/ \E i \in 1..Len(runs) : RunGetLog(i)
    \/ \E i \in 1..Len(runs) : RunExtract(i)
    \/ \E i \in 1..Len(runs) : RunWrite(i)

Spec == Init /\ [][Next]_vars

\* SpecPost: requests that overlap (several workers on one store), with
\* their background tasks as main.py runs them, for every kind of text.
NextPost ==
    \/ CreateNewChat
    \/ \E p \in Posts : PostAdd(p, RequestTexts)
    \/ \E p \in Posts : PostIncrement(p)
    \/ \E p \in Posts : PostTxRead(p)
    \/ \E p \in Posts : PostTxCommit(p)
    \/ \E p \in Posts : PostTask(p)
    \/ \E p \in Posts : PostSuggestRead(p)
    \/ \E p \in Posts : PostSuggestPost(p)

SpecPost == Init /\ [][NextPost]_vars

\* SpecListener: the handler under any sequence of notifications, with the
\* event loop running or stopped.
NextListener ==
    \/ \E type \in ChangeTypes, n \in NotifCounts : Deliver(type, n)
    \/ StopLoop

SpecListener == Init /\ [][NextListener]_vars

\* SpecRestart: the handler under any sequence of notifications, the loop
\* running, the process being started again in between.
NextRestart ==
    \/ \E type \in ChangeTypes, n \in NotifCounts : Deliver(type, n)
    \/ Restart

SpecRestart == Init /\ [][NextRestart]_vars

\* chat_logic.py:63-82 as the event loop executes it: the coroutine awaits
\* only coroutines that never suspend (the store client and generate_content
\* are blocking calls), so a run is one step of the loop, and the loop takes
\* the runs handed to it in the order they were handed over
\* (listeners.py:38).
RunPreferenceAnalysis ==
    /\ loopRunning
    /\ \E i \in 1..Len(runs) :
          /\ runs[i].pc = "log"
          /\ \A j \in 1..(i - 1) : runs[j].pc = "done"
          /\ LET log == GetChatLog(messages, ChatLogLimit)
             IN  IF LogIsEmpty(log)
                 THEN /\ runs' = [runs EXCEPT ![i].pc = "done"]
                      /\ UNCHANGED <<chat, notifQ, clock>>
                 ELSE \E resp \in PrefResponses, ok \in BOOLEAN :
                        LET out == AnalyzeChatForPreferences(log, resp, clock)
                            wrote == ok /\ chat.exists
                        IN  /\ clock' = clock + 1
                            /\ runs' = [runs EXCEPT
                                         ![i].pc = "done",
                                         ![i].failed = ExtractionFailed(resp),
                                         ![i].conforms = ResponseConforms(resp),
                                         ![i].named = ResponseHasPreferences(resp),
                                         ![i].out = out,
                                         ![i].wrote = wrote,
                                         ![i].raised = WriteFailureRaises(wrote)]
                            /\ chat' = IF wrote
                                       THEN [chat EXCEPT !.current_decision =
                                                            WriteBack(@, out)]
                                       ELSE chat
                            /\ notifQ' = IF wrote
                                         THEN Append(notifQ, Notification("MODIFIED", chat'))
                                         ELSE notifQ
    /\ UNCHANGED <<messages, listenerVars, postVars, farVars>>

\* The runs handed to the event loop in SpecLoop.
MaxQueued == 2

\* SpecLoop: the handler called with changes of any count, on a chat that has
\* messages, and the event loop executing the runs it was handed.
NextLoop ==
    \/ CreateNewChat
    \/ PostAdd(1, PlainTexts)
    \/ /\ Len(runs) < MaxQueued
       /\ \E n \in {k \in NotifCounts : Qualifies(k)} : Deliver("MODIFIED", n)
    \/ RunPreferenceAnalysis

SpecLoop == Init /\ [][NextLoop]_vars

\* The messages a chat may hold when its log is taken, and those among them
\* whose text has a line break.
MaxStored == 22
MaxMultiline == 1
LogTexts == { <<"h", "i">>, <<"o", "k", "\n", "B", "o", "b", ":", " ", "n", "o">> }
HasLineBreak(text) == \E i \in 1..Len(text) : text[i] = "\n"

\* main.py:167-173: a message of a user is added to the messages collection
StoreMessage ==
    /\ Len(messages) < MaxStored
    /\ \E text \in LogTexts :
          /\ HasLineBreak(text) =>
                Cardinality({m \in 1..Len(messages) :
                                HasLineBreak(messages[m].text)}) < MaxMultiline
          /\ messages' = Append(messages, UserMessage(text))
    /\ UNCHANGED <<chat, notifQ, listenerVars, runs, clock, postVars, farVars>>

\* SpecLog: the log an analysis run takes of a chat of any number of
\* messages.
NextLog ==
    \/ StoreMessage
    \/ Len(runs) < 1 /\ Deliver("MODIFIED", BatchSize)
    \/ \E i \in 1..Len(runs) : RunGetLog(i)

SpecLog == Init /\ [][NextLog]_vars

\* SpecWrites: one analysis run and the suggestion flow of one call, on a
\* chat that has a message, the store refusing writes.
NextWrites ==
    \/ CreateNewChat
    \/ PostAdd(1, PlainTexts)
    \/ Len(runs) < 1 /\ Deliver("MODIFIED", BatchSize)
    \/ RunPreferenceAnalysis
    \/ ProcessNewMessageTasks(1)
    \/ SuggestTranslate(1)
    \/ SuggestSearch(1)

SpecWrites == Init /\ [][NextWrites]_vars

\* SpecSuggest: chat_logic's process_new_message_tasks called for the
\* messages of requests, and the suggestion flows it starts.
NextSuggest ==
    \/ CreateNewChat
    \/ \E c \in Calls : ProcessNewMessageTasks(c)
    \/ \E c \in Calls : SuggestTranslate(c)
    \/ \E c \in Calls : SuggestSearch(c)

SpecSuggest == Init /\ [][NextSuggest]_vars

\* SpecPoll: run_poll_analysis called for messages, and votes that overlap.
NextPoll ==
    \/ RunPollAnalysis
    \/ \E v \in Votes : VoteRead(v)
    \/ \E v \in Votes : VoteCommit(v)

SpecPoll == Init /\ [][NextPoll]_vars

\* ================================================================= claims
RECURSIVE SumOver(_, _)
SumOver(f, S) ==
    IF S = {} THEN 0
    ELSE LET x == CHOOSE y \in S : TRUE IN f[x] + SumOver(f, S \ {x})

\* The request was answered 202: its transaction committed.
Accepted(p) == postPc[p] \in {"task", "sug_read", "sug_post", "done"}
\* The request ended in an error.
Failed(p) == postPc[p] \in {"failed_add", "failed_incr", "failed_tx"}
\* No request is between its first and its last store call.
Settled == \A p \in Posts : ~InRequest(p)
\* What a request has added to the count when it runs alone: one by the
\* increment of main.py:177, one more by the transaction of main.py:199.
Incremented(p) == Accepted(p) \/ postPc[p] \in {"tx_read", "tx_commit", "failed_tx"}
Alone(p) == (IF Incremented(p) THEN 1 ELSE 0) + (IF Accepted(p) THEN 1 ELSE 0)

\* C1: once every request has been answered and none has failed, the chat's
\* message_count equals the number of accepted messages.
C1_CountEqualsPosts ==
    (chat.exists /\ Settled /\ \A p \in Posts : ~Failed(p))
        => chat.message_count = Cardinality({p \in Posts : Accepted(p)})

\* C8: whatever the interleaving of the requests, once they are settled the
\* count is the sum of what each request adds when it runs alone.
C8_NoLostIncrement ==
    Settled => chat.message_count = SumOver([p \in Posts |-> Alone(p)], Posts)

\* C8 witness: two requests were accepted and one of them had to run its
\* transaction again because the other wrote in between.
C8_Witness ==
    /\ Settled
    /\ Cardinality({p \in Posts : Accepted(p)}) >= 2
    /\ \E p \in Posts : postRetried[p]

\* Runs the listener has scheduled for count k.
ListenerRuns(k) == {i \in 1..Len(runs) : runs[i].by = "listener" /\ runs[i].count = k}

\* C2: for notifications in non-decreasing order of count, exactly one run
\* has been scheduled for each delivered count that is positive and a
\* multiple of 4, and none for any other count.
C2_OncePerQualifyingCount ==
    hist.monotone =>
        \A k \in 0..MaxCount :
            Cardinality(ListenerRuns(k)) =
                IF k \in hist.seen /\ k > 0 /\ k % 4 = 0 THEN 1 ELSE 0

\* C3: a notification whose count equals the last count seen schedules
\* nothing and leaves the last count seen as it is; so the notifications of
\* the analysis write-backs never start another run, and the listener has
\* started at most one run for each count the document has had.
C3_EqualCountIgnored ==
    /\ [][(/\ notifQ # <<>>
           /\ Head(notifQ).message_count = processed_counts
           /\ OnChatSnapshot)
            => UNCHANGED <<processed_counts, runs>>]_vars
    /\ [](\A k \in 0..(2 * MaxPosts) : Cardinality(ListenerRuns(k)) <= 1)

\* C3 witness: a run has written current_decision back, the notification of
\* that write has been handled, and no run is left to do.
C3_Witness ==
    /\ \E i \in 1..Len(runs) : runs[i].by = "listener" /\ runs[i].wrote
    /\ notifQ = <<>>
    /\ processed_counts = chat.message_count
    /\ \A i \in 1..Len(runs) : runs[i].pc = "done"

\* C4: the write-back of a run whose extraction failed leaves the stored
\* session (its summary and its preferences) as it was.
C4_FailureKeepsDecision ==
    [][\A i \in 1..Len(runs) :
          (runs[i].pc = "write" /\ runs[i].failed /\ RunWrite(i))
             => Content(chat'.current_decision) = Content(chat.current_decision)]_vars

\* C5: when the response conforms to the schema of the call and names a
\* preference, the session returned is not the default one.
C5_ConformingResponseUsed ==
    \A i \in 1..Len(runs) :
        (runs[i].pc \in {"write", "done"} /\ runs[i].named)
            => Content(runs[i].out) # Content(DefaultSession(0))

\* C9: the stored current_decision is the session the chat was created with
\* or, whole, the session one analysis run returned and wrote.
C9_DecisionFromOneRun ==
    chat.exists =>
        \/ chat.current_decision = DefaultSession(0)
        \/ \E i \in 1..Len(runs) :
              runs[i].wrote /\ chat.current_decision = runs[i].out

\* C9 witness: two runs have written, the later one over a session that was
\* not the default one, with another summary and other preferences.
C9_Witness ==
    \E i, j \in 1..Len(runs) :
        /\ i # j /\ runs[i].wrote /\ runs[j].wrote
        /\ chat.current_decision = runs[j].out
        /\ Content(runs[i].out) # Content(DefaultSession(0))
        /\ runs[i].out.summary # runs[j].out.summary
        /\ runs[i].out.structured_preferences # runs[j].out.structured_preferences

\* The posts a call has made so far, and the steps of a call.
PostsOf(r) == r.summaries + r.results + r.apologies
IsAssistant(msg) == msg.user_id = "ai-assistant"
NewMessages == SubSeq(messages', Len(messages) + 1, Len(messages'))

\* C6: each post of the suggestion flow that the store takes raises
\* message_count by one and puts a notification of the chat document in the
\* listener's queue.
C6_AssistantPostsCount ==
    [][\A c \in Calls :
          sug'[c] # sug[c] =>
              /\ chat'.message_count =
                     chat.message_count + (Len(messages') - Len(messages))
              /\ Len(notifQ') = Len(notifQ) + (Len(messages') - Len(messages))]_vars

\* C6, as the code has it: a step of the flow appends one assistant message
\* for each post it makes that the store does not refuse, and leaves the chat
\* document, message_count with it, and the listener's queue as they were.
C6_AssistantPostsLeaveCount ==
    [][\A c \in Calls :
          sug'[c] # sug[c] =>
              /\ Len(messages') >= Len(messages)
              /\ SubSeq(messages', 1, Len(messages)) = messages
              /\ \A i \in 1..Len(NewMessages) : IsAssistant(NewMessages[i])
              /\ Len(NewMessages) =
                     (PostsOf(sug'[c]) - PostsOf(sug[c])) - (faults' - faults)
              /\ chat' = chat
              /\ notifQ' = notifQ]_vars

\* C6 witness: a summary, a place result and an apology are in the message
\* collection, and the chat document still counts no message and no
\* notification but that of its creation was produced.
C6_Witness ==
    /\ chat.exists
    /\ \A kind \in {"summary", "place", "apology"} :
          \E i \in 1..Len(messages) :
              IsAssistant(messages[i]) /\ messages[i].text[1] = kind
    /\ chat.message_count = 0
    /\ Len(notifQ) <= 1

\* C7: a flow whose search found no place has posted one apology and no
\* place result.
C7_ZeroPlacesOneApology ==
    \A c \in Calls :
        (sug[c].pc = "done" /\ sug[c].searches = 1 /\ sug[c].zero)
            => sug[c].apologies = 1 /\ sug[c].results = 0

\* C10: the task of a request starts the suggestion flow exactly for the
\* command, and starts no analysis run and writes nothing to the store
\* whatever the message is.
C10_OnlyTheCommandRuns ==
    [][\A p \in Posts :
          (postPc[p] = "task" /\ postPc'[p] # "task") =>
              /\ (postPc'[p] = "sug_read") <=> IsFindFood(postText[p])
              /\ runs' = runs
              /\ UNCHANGED storeVars]_vars

\* C11: a flow posts its summary, the stored summary of the chat as it
\* reads it, in the step that starts it, one post and no other; it searches
\* and posts place results or the apology only in a later step, with the
\* summary posted.
C11_SummaryFirst ==
    [][\A c \in Calls :
          /\ (sug[c].pc = "idle" /\ sug'[c].pc = "translate") =>
                /\ sug'[c].summaries = 1
                /\ sug'[c].searches = 0 /\ sug'[c].results = 0 /\ sug'[c].apologies = 0
                /\ IF faults' = faults
                   THEN messages' = Append(messages,
                            SummaryMessage("WeGoGo", chat.current_decision.summary))
                   ELSE messages' = messages
          /\ (\/ sug'[c].searches > sug[c].searches
              \/ sug'[c].results > sug[c].results
              \/ sug'[c].apologies > sug[c].apologies) =>
                /\ sug[c].summaries = 1
                /\ sug'[c].summaries = 1]_vars

\* C11 witness: a flow has searched and posted place results, and the
\* message collection holds its summary before them.
C11_Witness ==
    \E c \in Calls :
        /\ sug[c].searches = 1 /\ sug[c].results > 0
        /\ Len(messages) >= 2
        /\ messages[1] = SummaryMessage("WeGoGo", sug[c].doc.summary)
        /\ messages[2].text[1] = "place"

\* C12: a flow posts no more place results than the cap.
C12_AtMostCapResults ==
    \A c \in Calls : sug[c].results <= PageSize

\* A request the search can be issued with: a string textQuery and the
\* fixed pageSize.
Issuable(body) ==
    /\ Has(body, "textQuery") /\ body["textQuery"].t = "str"
    /\ Has(body, "pageSize") /\ body["pageSize"] = JNum(PageSize)

\* C13: every request the translation hands to the search is issuable, and
\* it is the fallback request unless it is what a response conforming to
\* the request schema gives.
C13_FallbackOrConforming ==
    \A c \in Calls :
        sug[c].pc = "search" =>
            /\ Issuable(sug[c].req.body)
            /\ \/ sug[c].req = FallbackRequest
               \/ ConformsToPlacesRequestSchema(JObj(sug[c].req.body))

\* C20: priceLevels, where a request of the translation has it, is a list
\* of the four fixed levels.
C20_NoFreeLevel ==
    \A c \in Calls :
        (sug[c].pc = "search" /\ Has(sug[c].req.body, "priceLevels"))
            => IsPriceLevelList(sug[c].req.body["priceLevels"])

\* C16: a flow that finds no chat document ends in the step that starts it:
\* nothing is posted or written, no request is built, no search made.
C16_AbsentChatAborts ==
    [][\A c \in Calls :
          (sug[c].pc = "idle" /\ sug'[c].pc # "idle" /\ sug'[c].command
             /\ ~chat.exists) =>
                /\ sug'[c] = [IdleCall EXCEPT !.pc = "done", !.command = TRUE]
                /\ UNCHANGED <<chat, messages, notifQ, faults>>]_vars

\* C16 witness: the first flow found no chat and ended with nothing done;
\* the chat was created afterwards and the next flow posted its summary.
C16_Witness ==
    /\ MaxCalls >= 2
    /\ sug[1] = [IdleCall EXCEPT !.pc = "done", !.command = TRUE]
    /\ chat.exists
    /\ sug[2].summaries = 1
    /\ Len(messages) = 1

\* C18: an extraction that fails, whatever the failure, returns the default
\* session constructed at the time of the call.
C18_FailureGivesDefault ==
    [][\A i \in 1..Len(runs) :
          (runs[i].pc = "extract" /\ runs'[i].pc = "write" /\ runs'[i].failed) =>
              /\ runs'[i].out = DefaultSession(clock)
              /\ runs'[i].out.summary = "No preferences found yet."
              /\ \A f \in PrefFields :
                    runs'[i].out.structured_preferences[f] = <<>>]_vars

\* C18 witness: one run's extraction failed and returned the default
\* session, another's succeeded with a session of its own.
C18_Witness ==
    \E i, j \in 1..Len(runs) :
        /\ runs[i].pc \in {"write", "done"} /\ runs[i].failed
        /\ Content(runs[i].out) = Content(DefaultSession(0))
        /\ runs[j].pc \in {"write", "done"} /\ ~runs[j].failed
        /\ Content(runs[j].out) # Content(DefaultSession(0))

\* No option of the poll has the text.
NoOptionMatches(options, text) == \A i \in 1..Len(options) : options[i].text # text

\* C14: a vote on a poll that does not exist is answered 404, a vote whose
\* option_text is the text of no option of the poll 400; neither writes to
\* the poll, and every option's count is the number of votes for its text
\* that were answered 200.
C14_InvalidVoteRejected ==
    /\ [][\A v \in Votes :
            /\ (vote[v].pc \in {"idle", "read"} /\ vote'[v] # vote[v]
                  /\ vote'[v].status # 500) =>
                   /\ poll' = poll
                   /\ ~poll.exists =>
                         vote'[v].pc = "done" /\ vote'[v].status = 404
                   /\ (poll.exists
                         /\ NoOptionMatches(poll.options, vote'[v].option_text)) =>
                         vote'[v].pc = "done" /\ vote'[v].status = 400
            /\ (vote[v].status = 0 /\ vote'[v].status \in {400, 404}) =>
                   poll' = poll]_vars
    /\ [](poll.exists =>
            \A i \in 1..Len(poll.options) :
                poll.options[i].votes =
                    Cardinality({v \in Votes :
                                    /\ vote[v].status = 200
                                    /\ vote[v].option_text = poll.options[i].text}))

\* C14 witness: a vote was answered 404 before the poll existed; on the poll
\* of two options one vote was answered 400 and the counts are still zero.
C14_Witness ==
    /\ poll.exists /\ Len(poll.options) = 2
    /\ \E v, w \in Votes :
          /\ vote[v].status = 404
          /\ vote[w].status = 400 /\ vote[w].option_text = "Maybe"
    /\ \A i \in 1..Len(poll.options) : poll.options[i].votes = 0

\* main.py:158, 213-216: the status a post_message request is answered with
PostStatus(pc) ==
    IF pc \in {"failed_add", "failed_incr", "failed_tx"} THEN 500
    ELSE IF pc \in {"task", "sug_read", "sug_post", "done"} THEN 202
    ELSE 0

\* C15: a post_message request that comes to the chat document and finds
\* none is answered 404.
C15_MissingChatIs404 ==
    [][\A p \in Posts :
          (postPc[p] = "incr" /\ postPc'[p] # "incr" /\ ~chat.exists)
              => PostStatus(postPc'[p]) = 404]_vars

\* C17: a poll the extraction returns has at least two options, and a
\* response with fewer than two gets none.
C17_AtLeastTwoOptions ==
    /\ (pollRun.called /\ ~pollRun.none) => Len(pollRun.poll.options) >= 2
    /\ (pollRun.called /\ pollRun.few) => pollRun.none

\* C19: a response without usable content or that violates the schema of
\* the poll gets none, and no poll is saved for it.
C19_RejectableGivesNone ==
    (pollRun.called /\ pollRun.rejectable) => (pollRun.none /\ ~pollRun.saved)

\* The runs that have written current_decision, in the order they were
\* scheduled.
Writers == {i \in 1..Len(runs) : runs[i].wrote}
AllRunsDone == \A i \in 1..Len(runs) : runs[i].pc = "done"

C22_RedeliverySchedulesNothing ==
    [][(hist' # hist /\ hist'.last \in hist.seen) => runs' = runs]_vars

\* C23: every request the flow is about to search with carries the fixed
\* locationRestriction, whatever the translation answered.
C23_AlwaysBoundingBox ==
    \A c \in Calls :
        sug[c].pc = "search" =>
            /\ Has(sug[c].req.body, "locationRestriction")
            /\ sug[c].req.body["locationRestriction"] = LocationRestriction

\* C24: a vote answered 200 adds one to the votes of the first option whose
\* text is option_text and changes nothing else of the poll (title, order
\* and texts of the options, the other options' votes, created_by_message);
\* a poll that exists is changed by nothing but such a vote.
C24_VoteChangesOneCount ==
    /\ [][\A v \in Votes :
            (vote[v].status = 0 /\ vote'[v].status = 200) =>
                /\ poll.exists
                /\ \E i \in 1..Len(poll.options) :
                      /\ poll.options[i].text = vote[v].option_text
                      /\ \A k \in 1..(i - 1) :
                            poll.options[k].text # vote[v].option_text
                      /\ poll' = [poll EXCEPT !.options[i].votes = @ + 1]]_vars
    /\ [][(poll.exists /\ poll' # poll) =>
            \E v \in Votes : vote[v].status = 0 /\ vote'[v].status = 200]_vars

\* C24 witness: on the poll of two options a vote for "No" was answered 200;
\* "No" has one vote and "Yes" none.
C24_Witness ==
    /\ poll.exists /\ Len(poll.options) = 2
    /\ poll.title = "Pizza tonight?"
    /\ poll.options[1] = [text |-> "Yes", votes |-> 0]
    /\ poll.options[2] = [text |-> "No", votes |-> 1]
    /\ \E v \in Votes : vote[v].status = 200 /\ vote[v].option_text = "No"

\* C25: a flow whose summary post the store refuses goes on to the
\* translation, and a flow that has posted or lost its summary ends only
\* after its search, with the posts for what the search gave; a run whose
\* write-back fails ends without an exception.
C25_WriteFailureSwallowed ==
    /\ [][\A c \in Calls :
            (/\ sug[c].pc = "idle" /\ sug'[c].command
             /\ chat.exists /\ messages' = messages) =>
                sug'[c].pc = "translate"]_vars
    /\ [](\A c \in Calls :
            (sug[c].pc = "done" /\ sug[c].summaries = 1) => sug[c].searches = 1)
    /\ [](\A i \in 1..Len(runs) : ~runs[i].raised)

\* C25 witness: the flow has ended with its only message in the store a
\* place result, the summary post having been refused; and a run whose
\* extraction named preferences has ended without having written.
C25_Witness ==
    /\ sug[1].pc = "done" /\ sug[1].summaries = 1 /\ sug[1].results = 1
    /\ \A m \in 1..Len(messages) :
          IsAssistant(messages[m]) => messages[m].text[1] = "place"
    /\ \E m \in 1..Len(messages) : IsAssistant(messages[m])
    /\ \E i \in 1..Len(runs) :
          runs[i].pc = "done" /\ runs[i].named /\ ~runs[i].wrote /\ chat.exists

\* The messages a log is to cover: the most recent ones, at most the limit,
\* oldest first.
Recent(msgs) ==
    LET n == IF Len(msgs) < ChatLogLimit THEN Len(msgs) ELSE ChatLogLimit
    IN  SubSeq(msgs, Len(msgs) - n + 1, Len(msgs))
LineOf(msg) == NameChars(msg.user_name) \o <<":", " ">> \o msg.text

\* C26: the transcript a run takes has one line for each of the most recent
\* min(20, number of stored messages) messages, oldest first, the line being
\* "user_name: text".
C26_OneLinePerMessage ==
    [][(runs # <<>> /\ runs[1].pc = "log" /\ runs'[1].pc # "log") =>
          LET lines == SplitLines(Transcript(runs'[1].log))
              recent == Recent(messages)
          IN  /\ Len(lines) = Len(recent)
              /\ \A k \in 1..Len(recent) : lines[k] = LineOf(recent[k])]_vars

\* C26, as the code has it: the transcript is the entries "user_name: text"
\* of the most recent min(20, number of stored messages) messages, oldest
\* first, joined by line breaks; its lines are one for each message when no
\* text of these has a line break, and more than that otherwise.
C26_OneEntryPerMessage ==
    [][(runs # <<>> /\ runs[1].pc = "log" /\ runs'[1].pc # "log") =>
          LET recent == Recent(messages)
              lines == SplitLines(Transcript(runs'[1].log))
              broken == \E k \in 1..Len(recent) : HasLineBreak(recent[k].text)
          IN  /\ Transcript(runs'[1].log) =
                     Join([k \in 1..Len(recent) |-> LineOf(recent[k])])
              /\ ~broken =>
                     /\ Len(lines) = Len(recent)
                     /\ \A k \in 1..Len(recent) : lines[k] = LineOf(recent[k])
              /\ broken => Len(lines) > Len(recent)]_vars

\* C26 witness: a log of 20 entries taken of a chat of more than 20 messages,
\* one of the 20 with a line break in its text.
C26_Witness ==
    /\ runs # <<>> /\ runs[1].pc = "extract"
    /\ Len(messages) > ChatLogLimit
    /\ Len(runs[1].log) = ChatLogLimit
    /\ \E k \in 1..ChatLogLimit : HasLineBreak(runs[1].log[k][2])
    /\ Len(SplitLines(Transcript(runs[1].log))) = ChatLogLimit + 1

\* The runs scheduled since the process started again, for count k and for
\* counts that had a run before.
RunsSince(k) == {i \in ListenerRuns(k) : i > hist.before}
Repeated ==
    {i \in 1..Len(runs) :
        i > hist.before /\ \E j \in 1..hist.before : runs[j].count = runs[i].count}

C28_FailedPostLeavesNothing ==
    (\A p \in Posts : postPc[p] = "idle" \/ Failed(p)) =>
        /\ messages = <<>>
        /\ chat.exists => chat.message_count = 0

\* C29: a step of the handler that records a positive multiple of 4 as the
\* last count seen schedules a run for that count, whether the loop is
\* running or not.
C29_MarkedMeansScheduled ==
    [][(processed_counts' # processed_counts /\ Qualifies(processed_counts')) =>
          /\ Len(runs') = Len(runs) + 1
          /\ runs'[Len(runs')].by = "listener"
          /\ runs'[Len(runs')].count = processed_counts']_vars

\* The votes a poll holds over all its options, and the votes answered 200.
TotalVotes(p) ==
    SumOver([i \in 1..Len(p.options) |-> p.options[i].votes], 1..Len(p.options))
Successful == {v \in Votes : vote[v].status = 200}

\* C30: however the votes interleave, the votes of the poll over all its
\* options are as many as the votes answered 200, each option holding those
\* that named its text; each vote answered 200 adds exactly one.
C30_NoVoteLost ==
    /\ [](poll.exists =>
            /\ TotalVotes(poll) = Cardinality(Successful)
            /\ \A i \in 1..Len(poll.options) :
                  poll.options[i].votes =
                      Cardinality({v \in Successful :
                                      vote[v].option_text = poll.options[i].text}))
    /\ [][\A v \in Votes :
            (vote[v].status = 0 /\ vote'[v].status = 200) =>
                TotalVotes(poll') = TotalVotes(poll) + 1]_vars

\* C30 witness: two votes for "Yes" have been answered 200, one of them
\* after running its transaction again, and "Yes" has both.
C30_Witness ==
    /\ poll.exists /\ Len(poll.options) = 2
    /\ Cardinality(Successful) = MaxVotes
    /\ \A v \in Votes : vote[v].option_text = "Yes"
    /\ \E v \in Votes : vote[v].retried
    /\ poll.options[1] = [text |-> "Yes", votes |-> MaxVotes]

\* C31: a run executed while the chat has no stored message ends without
\* extraction and without a write: the chat document, current_decision and
\* its last_updated included, is as before, no notification is produced,
\* and the run holds no output.
C31_EmptyLogWritesNothing ==
    [][\A i \in 1..Len(runs) :
          (runs[i].pc = "log" /\ runs'[i].pc # "log" /\ messages = <<>>) =>
              /\ runs'[i] = [runs[i] EXCEPT !.pc = "done"]
              /\ chat' = chat
              /\ notifQ' = notifQ
              /\ clock' = clock]_vars

\* C31 witness: on an existing chat without messages a run has ended, having
\* written nothing; the session is the one the chat was created with.
C31_Witness ==
    /\ chat.exists /\ messages = <<>>
    /\ \E i \in 1..Len(runs) :
          runs[i].pc = "done" /\ ~runs[i].wrote /\ runs[i].out = DefaultSession(0)
    /\ Content(chat.current_decision) = Content(DefaultSession(0))
    /\ Len(notifQ) = 1

====
